---- MODULE Spec2Model ----
(***************************************************************************)
(* Model of the BLE delivery paths of ks-led-controller:                   *)
(*   - write_command of led_control.py      (path "control")               *)
(*   - write_command of led_menu.py         (path "menu")                  *)
(*   - send_command(..., is_color=True) of led_menu.py  (path "color")     *)
(* The BLE client (bleak) is the environment: connect, write_gatt_char and *)
(* disconnect each return or raise, and the link may drop at any time.     *)
(* Every BLE operation and every asyncio.sleep of a delivery is appended   *)
(* to log, so the order of operations of a delivery can be stated.         *)
(***************************************************************************)
EXTENDS Integers, Sequences, FiniteSets, TLC

VARIABLES
    pc,             \* position of the running delivery
    path,           \* which function is delivering: "none", "control", "menu", "color"
    char_short,     \* write_command's char_short / mapping["write"]
    payload,        \* the bytes to deliver
    verbose,        \* led_control.write_command's verbose flag
    is_connected,   \* client.is_connected
    log,            \* BLE operations and sleeps of the running delivery, in order
    write_success,  \* led_control.write_command's write_success
    last_error,     \* led_control.write_command's last_error
    e1, e2, e3,     \* the exceptions led_control.write_command binds
    result,         \* how the delivery ended: returned, or the exception raised
    request,        \* the menu operation that asked for the delivery
    enc_call,       \* a call of a command builder: the function and its arguments
    enc_out,        \* what that call did: pending, returned bytes, or raised
    reg_call,       \* a resolution of an advertised name: the code resolving, the name
    reg_out,        \* what it resolved to: pending, a prefix and its UUIDs, or nothing
    scan_call,      \* a call of a scan function: the function, its arguments, the devices around
    scan_out,       \* what it did: the discover calls it started and what it returned
    cli_args,       \* led_control.main: the parsed command line, and the devices around
    cli_pc,         \* main's position
    cli_targets,    \* --all-ks03: the targets not yet written to
    cli_address,    \* single target: the address main settled on
    cli_log,        \* the scans and write_command calls main made, in order
    cli_exit,       \* whether the process has ended, and its exit status
    lingering,      \* menu session: connections to the selected device that
                    \* earlier deliveries left open when they ended
    ses_pc,         \* led_menu.main: its position
    ses_devices,    \* the devices the last scan returned
    ses_device,     \* the selected device
    ses_log         \* the send_command calls made since the device was selected, in order

\* The state of a delivery.
delivery == <<pc, path, char_short, payload, verbose, is_connected, log,
              write_success, last_error, e1, e2, e3, result, request>>

\* The state outside the deliveries: the other specifications' variables.
cli == <<cli_args, cli_pc, cli_targets, cli_address, cli_log, cli_exit>>
ses == <<lingering, ses_pc, ses_devices, ses_device, ses_log>>
outside == <<enc_call, enc_out, reg_call, reg_out, scan_call, scan_out, cli, ses>>

vars == <<delivery, outside>>

\* Number of different failure reasons a BLE operation can raise with.
NumReasons == 2

Reasons == 1..NumReasons

(***************************************************************************)
(* Strings the code inspects are sequences of one-character strings.       *)
(***************************************************************************)
FFF3 == <<"F", "F", "F", "3">>
AFD1 == <<"A", "F", "D", "1">>
AFD3 == <<"A", "F", "D", "3">>
AE01 == <<"A", "E", "0", "1">>
AE02 == <<"A", "E", "0", "2">>
AE10 == <<"A", "E", "1", "0">>
afd3 == <<"a", "f", "d", "3">>

FFF0 == <<"F", "F", "F", "0">>
AFD0 == <<"A", "F", "D", "0">>
AE00 == <<"A", "E", "0", "0">>

\* A device name prefix "KSnn-" or "KSnn~".
Prefix(d1, d2, sep) == <<"K", "S", d1, d2, sep>>

Mapping(prefix, service, write) == [prefix |-> prefix, service |-> service, write |-> write]

\* led_control.DEVICE_UUIDS
DEVICE_UUIDS ==
    { Mapping(Prefix("0", "3", "-"), FFF0, FFF3),
      Mapping(Prefix("0", "4", "-"), FFF0, FFF3),
      Mapping(Prefix("0", "3", "~"), AFD0, AFD1),
      Mapping(Prefix("0", "1", "-"), AE00, AE01),
      Mapping(Prefix("0", "2", "-"), AE00, AE01),
      Mapping(Prefix("0", "4", "~"), AE00, AE10),
      Mapping(Prefix("0", "5", "-"), AE00, AE02),
      Mapping(Prefix("0", "7", "-"), AE00, AE10),
      Mapping(Prefix("0", "8", "-"), AE00, AE10),
      Mapping(Prefix("0", "9", "-"), AE00, AE10),
      Mapping(Prefix("1", "0", "-"), AE00, AE10),
      Mapping(Prefix("1", "1", "-"), AE00, AE10),
      Mapping(Prefix("1", "2", "-"), AE00, AE10),
      Mapping(Prefix("1", "3", "-"), AE00, AE10),
      Mapping(Prefix("1", "5", "~"), AFD0, AFD3) }

TypedMapping(prefix, service, write, type) ==
    [prefix |-> prefix, service |-> service, write |-> write, type |-> type]

\* led_menu.DEVICE_MAPPINGS
DEVICE_MAPPINGS ==
    { TypedMapping(Prefix("0", "3", "-"), FFF0, FFF3, "ceiling"),
      TypedMapping(Prefix("0", "3", "~"), AFD0, AFD1, "floor"),
      TypedMapping(Prefix("0", "4", "-"), FFF0, FFF3, "ceiling"),
      TypedMapping(Prefix("0", "1", "-"), AE00, AE01, "ceiling"),
      TypedMapping(Prefix("0", "2", "-"), AE00, AE01, "ceiling") }

\* char_short of led_control.write_command is any string: main passes the
\* "write" code of a DEVICE_UUIDS entry; a code in lower case stands for the
\* other strings a caller can pass.
ControlCharShorts == {m.write : m \in DEVICE_UUIDS} \cup {afd3}

\* str.upper() on one character.
UpperChar(c) ==
    CASE c = "a" -> "A"
      [] c = "b" -> "B"
      [] c = "c" -> "C"
      [] c = "d" -> "D"
      [] c = "e" -> "E"
      [] c = "f" -> "F"
      [] OTHER -> c

\* str.upper()
Upper(s) == [i \in DOMAIN s |-> UpperChar(s[i])]

\* UUID_TEMPLATE % short
UUID_TEMPLATE(short) == <<"0", "0", "0", "0">> \o short \o <<"-0000-1000-8000-00805f9b34fb">>

\* Value of one hexadecimal digit.
HexVal(c) ==
    CASE c = "0" -> 0 [] c = "1" -> 1 [] c = "2" -> 2 [] c = "3" -> 3
      [] c = "4" -> 4 [] c = "5" -> 5 [] c = "6" -> 6 [] c = "7" -> 7
      [] c = "8" -> 8 [] c = "9" -> 9 [] c = "A" -> 10 [] c = "B" -> 11
      [] c = "C" -> 12 [] c = "D" -> 13 [] c = "E" -> 14 [] c = "F" -> 15

HexChars == {"0", "1", "2", "3", "4", "5", "6", "7", "8", "9",
             "A", "B", "C", "D", "E", "F"}

\* bytes.fromhex raises ValueError unless the string is pairs of hexadecimal
\* digits (no white space occurs in the strings built here).
HexOk(s) == Len(s) % 2 = 0 /\ \A i \in 1..Len(s) : s[i] \in HexChars

\* bytes.fromhex, when it does not raise
FromHex(s) == [i \in 1..(Len(s) \div 2) |-> 16 * HexVal(s[2 * i - 1]) + HexVal(s[2 * i])]

\* A slip: the on and off codes are exchanged.
Control_build_on_off_cmd_swapped(is_on) ==
    FromHex(<<"5", "B">> \o (IF is_on THEN <<"0", "F">> ELSE <<"F", "0">>)
            \o <<"0", "1", "B", "5">>)

\* led_control.build_on_off_cmd: "5B" + ("F0" if is_on else "0F") + "01B5"
Control_build_on_off_cmd(is_on) ==
    FromHex(<<"5", "B">> \o (IF is_on THEN <<"F", "0">> ELSE <<"0", "F">>)
            \o <<"0", "1", "B", "5">>)

\* led_menu.build_on_off_cmd
Menu_build_on_off_cmd(is_on) ==
    FromHex(IF is_on THEN <<"5", "B", "F", "0", "0", "1", "B", "5">>
                     ELSE <<"5", "B", "0", "F", "0", "1", "B", "5">>)

\* One hexadecimal digit, in upper case.
HexDigit(n) ==
    CASE n = 0 -> "0" [] n = 1 -> "1" [] n = 2 -> "2" [] n = 3 -> "3"
      [] n = 4 -> "4" [] n = 5 -> "5" [] n = 6 -> "6" [] n = 7 -> "7"
      [] n = 8 -> "8" [] n = 9 -> "9" [] n = 10 -> "A" [] n = 11 -> "B"
      [] n = 12 -> "C" [] n = 13 -> "D" [] n = 14 -> "E" [] n = 15 -> "F"

\* The hexadecimal digits of n >= 0, without padding.
RECURSIVE HexDigits(_)
HexDigits(n) ==
    IF n < 16 THEN <<HexDigit(n)>>
    ELSE HexDigits(n \div 16) \o <<HexDigit(n % 16)>>

\* A slip in the formatting: no zero padding.
Format02X_unpadded(n) ==
    IF n < 0 THEN <<"-">> \o HexDigits(0 - n) ELSE HexDigits(n)

\* f"{n:02X}": upper-case hexadecimal, zero-padded to two characters, the
\* sign of a negative number counted in the width.
Format02X(n) ==
    IF n < 0 THEN <<"-">> \o HexDigits(0 - n)
    ELSE IF n < 16 THEN <<"0">> \o HexDigits(n)
    ELSE HexDigits(n)

\* led_menu.build_color_cmd: cmd_str
color_cmd_str(r, g, b, device_type, brightness) ==
    LET rgb_hex == Format02X(r) \o Format02X(g) \o Format02X(b)
    IN  IF device_type = "floor"
        THEN <<"5", "A", "0", "0", "0", "1">> \o rgb_hex \o <<"0", "0">>
                 \o Format02X(brightness) \o <<"0", "0", "A", "5">>
        ELSE <<"7", "E", "0", "7", "0", "5", "0", "3">> \o rgb_hex
                 \o <<"0", "0", "E", "F">>

\* led_menu.build_color_cmd, when bytes.fromhex(cmd_str) does not raise
build_color_cmd(r, g, b, device_type, brightness) ==
    FromHex(color_cmd_str(r, g, b, device_type, brightness))

\* A slip: the level is put at the red position.
brightness_cmd_level_in_rgb(brightness) ==
    FromHex(<<"5", "A", "0", "0", "0", "2">> \o Format02X(brightness)
            \o <<"0", "0", "0", "0", "0", "0", "0", "0", "0", "0", "A", "5">>)

\* brightness_menu, for a floor lamp:
\* cmd = bytes.fromhex(f"5A000200000000{brightness:02X}00A5")
brightness_cmd(brightness) ==
    FromHex(<<"5", "A", "0", "0", "0", "2", "0", "0", "0", "0", "0", "0", "0", "0">>
            \o Format02X(brightness) \o <<"0", "0", "A", "5">>)

\* The payloads the menus hand to send_command(is_color=True) in this model:
\* the "Warm White" preset of DEFAULT_PRESETS built for the device's type and,
\* for a floor lamp, the 50% brightness command.
ColorPayloads(device_type) ==
    {build_color_cmd(255, 147, 41, device_type, 255)}
        \cup (IF device_type = "floor" THEN {brightness_cmd(128)} ELSE {})

(***************************************************************************)
(* Log entries and exceptions.                                             *)
(***************************************************************************)
NoChar == <<>>
NoData == <<>>

\* One logged operation. ok: it returned (did not raise); up: the link is open
\* when it returns; reason: why it raised (0: it did not); ms: a sleep's length.
Ev(op, char, response, data, ok, up, reason, ms) ==
    [op |-> op, char |-> char, response |-> response, data |-> data,
     ok |-> ok, up |-> up, reason |-> reason, ms |-> ms]

ConnectEv(ok, up, reason) == Ev("connect", NoChar, FALSE, NoData, ok, up, reason, 0)
SleepEv(ms) == Ev("sleep", NoChar, FALSE, NoData, TRUE, is_connected, 0, ms)
ServicesEv == Ev("services", NoChar, FALSE, NoData, TRUE, is_connected, 0, 0)
WriteEv(char, response, data, o) ==
    Ev("write", char, response, data, o.ok, is_connected, o.reason, 0)
DisconnectEv(ok, up, reason) == Ev("disconnect", NoChar, FALSE, NoData, ok, up, reason, 0)

\* The exception a failed BLE operation raises.
Err(op, char, response, reason) ==
    [op |-> op, char |-> char, response |-> response, reason |-> reason]

NoError == Err("none", NoChar, FALSE, 0)

Running == [kind |-> "running", reasons |-> <<>>]
Outcome(kind, reasons) == [kind |-> kind, reasons |-> reasons]

(***************************************************************************)
(* The BLE client, seen from its caller.                                   *)
(***************************************************************************)
\* client.write_gatt_char returns only on an open link; it raises otherwise,
\* and it may raise on an open link.
WriteOutcomes ==
    (IF is_connected THEN {[ok |-> TRUE, reason |-> 0]} ELSE {})
        \cup {[ok |-> FALSE, reason |-> r] : r \in Reasons}

\* A request of the menus: op is "none", "on_off", "color" or "brightness".
Request(op, type, level) == [op |-> op, type |-> type, level |-> level]
NoRequest == Request("none", "none", 0)

\* No delivery has been asked for yet.
DeliveryIdle ==
    /\ pc = "idle"
    /\ path = "none"
    /\ char_short = NoChar
    /\ payload = NoData
    /\ verbose = FALSE
    /\ is_connected = FALSE
    /\ log = <<>>
    /\ write_success = FALSE
    /\ last_error = NoError
    /\ e1 = NoError
    /\ e2 = NoError
    /\ e3 = NoError
    /\ result = Running
    /\ request = NoRequest

\* A call of a command builder. fn: "none", "control.build_on_off_cmd",
\* "menu.build_on_off_cmd", "build_color_cmd" or "brightness_cmd".
EncCall(fn, is_on, r, g, b, device_type, brightness) ==
    [fn |-> fn, is_on |-> is_on, r |-> r, g |-> g, b |-> b,
     device_type |-> device_type, brightness |-> brightness]
NoEncCall == EncCall("none", FALSE, 0, 0, 0, "none", 0)

EncPending == [status |-> "pending", bytes |-> <<>>]
EncReturned(bytes) == [status |-> "returned", bytes |-> bytes]
EncRaised == [status |-> "raised", bytes |-> <<>>]

\* No command builder is being called.
EncoderIdle == enc_call = NoEncCall /\ enc_out = EncPending

\* A resolution of a name. fn: "none", "scan_devices" (led_menu) or "main"
\* (led_control's --all-ks03 loop); order: the order in which the table's
\* prefixes are tried.
RegCall(fn, name, order) == [fn |-> fn, name |-> name, order |-> order]
NoRegCall == RegCall("none", <<>>, <<>>)

NoPrefix == <<>>
RegPending == [status |-> "pending", prefix |-> NoPrefix, service |-> NoChar, write |-> NoChar]
RegNothing == [status |-> "nothing", prefix |-> NoPrefix, service |-> NoChar, write |-> NoChar]
RegFound(m) == [status |-> "found", prefix |-> m.prefix, service |-> m.service, write |-> m.write]

\* No name is being resolved.
RegistryIdle == reg_call = NoRegCall /\ reg_out = RegPending

\* A call of a scan function. fn: "none", "scan_devices", "find_all_ks03" or
\* "find_device_by_prefix"; timeout in seconds; prefix: find_device_by_prefix's
\* argument; found: what BleakScanner.discover returns, in its order.
ScanCall(fn, timeout, prefix, found) ==
    [fn |-> fn, timeout |-> timeout, prefix |-> prefix, found |-> found]
NoScanCall == ScanCall("none", 0, NoPrefix, <<>>)

\* discover: the timeouts BleakScanner.discover was started with; devices:
\* the list returned (find_device_by_prefix: the one address, or none).
ScanPending == [status |-> "pending", discover |-> <<>>, devices |-> <<>>]
ScanReturned(timeout, devices) ==
    [status |-> "returned", discover |-> <<timeout>>, devices |-> devices]

\* No scan function is being called.
ScanIdle == scan_call = NoScanCall /\ scan_out = ScanPending

\* led_control.DEFAULT_ADDRESS, DEFAULT_PREFIX
DEFAULT_ADDRESS == "BE:60:4D:00:58:37"
DEFAULT_PREFIX == Prefix("0", "3", "~")

\* The parsed command line. address_given: --address was on the command line
\* (address is DEFAULT_ADDRESS when it was not); found: what a scan would
\* return.
CliArgs(action, model_prefix, address_given, address, all_ks03, timeout, found) ==
    [action |-> action, model_prefix |-> model_prefix,
     address_given |-> address_given, address |-> address,
     all_ks03 |-> all_ks03, timeout |-> timeout, found |-> found]
NoCliArgs == CliArgs("none", NoPrefix, FALSE, "", FALSE, 0, <<>>)

\* What main did: a scan (op "scan", its timeout) or a write_command call
\* (op "write", its address, service, characteristic, payload and whether it
\* returned).
CliEv(op, timeout, address, service, write, data, ok) ==
    [op |-> op, timeout |-> timeout, address |-> address, service |-> service,
     write |-> write, data |-> data, ok |-> ok]
CliScan(timeout) == CliEv("scan", timeout, "", NoChar, NoChar, NoData, TRUE)
CliWrite(address, mapping, data, ok) ==
    CliEv("write", 0, address, mapping.service, mapping.write, data, ok)

\* The process is running, or has ended with a status.
CliRunning == [exited |-> FALSE, status |-> 0]
CliExited(status) == [exited |-> TRUE, status |-> status]

\* led_control.main is not running.
CliIdle ==
    /\ cli_args = NoCliArgs /\ cli_pc = "idle" /\ cli_targets = <<>>
    /\ cli_address = "" /\ cli_log = <<>> /\ cli_exit = CliRunning

\* No device is selected.
NoDevice == [address |-> "", name |-> <<>>, prefix |-> NoPrefix]

\* led_menu.main is not running, and no connection was left open.
SessionIdle ==
    /\ lingering = 0 /\ ses_pc = "idle" /\ ses_devices = <<>>
    /\ ses_device = NoDevice /\ ses_log = <<>>

Init == DeliveryIdle /\ EncoderIdle /\ RegistryIdle /\ ScanIdle /\ CliIdle /\ SessionIdle

locals == <<write_success, last_error, e1, e2, e3>>
args == <<path, char_short, payload, verbose, request, outside>>

\* The link drops (device out of range, powered off) while a delivery runs.
LinkLost ==
    /\ pc \notin {"idle", "done"}
    /\ is_connected
    /\ is_connected' = FALSE
    /\ UNCHANGED <<pc, log, result, locals, args>>

(***************************************************************************)
(* client.connect, seen from its caller: it raises, or it returns with the *)
(* link open, or it returns with client.is_connected false.                *)
(***************************************************************************)
ConnectOutcomes ==
    {[ok |-> TRUE, up |-> TRUE, reason |-> 0], [ok |-> TRUE, up |-> FALSE, reason |-> 0]}
        \cup {[ok |-> FALSE, up |-> FALSE, reason |-> r] : r \in Reasons}

\* client.disconnect: it returns and the link is closed, or it raises and the
\* link is in either state.
DisconnectOutcomes ==
    {[ok |-> TRUE, up |-> FALSE, reason |-> 0]}
        \cup {[ok |-> FALSE, up |-> u, reason |-> r] : u \in BOOLEAN, r \in Reasons}

(***************************************************************************)
(* led_control.py: write_command                                           *)
(***************************************************************************)
\* main calls write_command(address, mapping["service"], mapping["write"],
\* payload, verbose); client = BleakClient(address).
Control_write_command ==
    /\ pc = "idle"
    /\ \E c \in ControlCharShorts, on \in BOOLEAN, v \in BOOLEAN :
         /\ path' = "control"
         /\ char_short' = c
         /\ payload' = Control_build_on_off_cmd(on)
         /\ verbose' = v
    /\ request' = NoRequest
    /\ UNCHANGED outside
    /\ pc' = "connect"
    /\ log' = <<>>
    /\ result' = Running
    /\ is_connected' = FALSE
    /\ write_success' = FALSE
    /\ last_error' = NoError
    /\ e1' = NoError
    /\ e2' = NoError
    /\ e3' = NoError

\* A slip: a connect that raises is tried once more.
Control_connect_retry ==
    /\ path = "control" /\ pc = "connect"
    /\ \E o \in ConnectOutcomes :
         /\ log' = Append(log, ConnectEv(o.ok, o.up, o.reason))
         /\ is_connected' = o.up
         /\ IF o.ok
            THEN pc' = "check" /\ UNCHANGED result
            ELSE IF log = <<>>
                 THEN pc' = "connect" /\ UNCHANGED result
                 ELSE /\ pc' = "finally"
                      /\ result' = Outcome("connect_raised", <<Err("connect", NoChar, FALSE, o.reason)>>)
    /\ UNCHANGED <<locals, args>>

\* await client.connect()
Control_connect ==
    /\ path = "control" /\ pc = "connect"
    /\ \E o \in ConnectOutcomes :
         /\ log' = Append(log, ConnectEv(o.ok, o.up, o.reason))
         /\ is_connected' = o.up
         /\ IF o.ok
            THEN pc' = "check" /\ UNCHANGED result
            ELSE /\ pc' = "finally"
                 /\ result' = Outcome("connect_raised", <<Err("connect", NoChar, FALSE, o.reason)>>)
    /\ UNCHANGED <<locals, args>>

\* if not client.is_connected: raise RuntimeError("Failed to connect to device")
Control_check ==
    /\ path = "control" /\ pc = "check"
    /\ IF is_connected
       THEN pc' = "settle" /\ UNCHANGED result
       ELSE pc' = "finally" /\ result' = Outcome("not_connected", <<>>)
    /\ UNCHANGED <<log, is_connected, locals, args>>

\* A slip: the settle delay after connecting is left out.
Control_settle_skipped ==
    /\ path = "control" /\ pc = "settle"
    /\ pc' = IF verbose THEN "services" ELSE "write1"
    /\ UNCHANGED <<log, is_connected, result, locals, args>>

\* await asyncio.sleep(0.3)
Control_settle ==
    /\ path = "control" /\ pc = "settle"
    /\ log' = Append(log, SleepEv(300))
    /\ pc' = IF verbose THEN "services" ELSE "write1"
    /\ UNCHANGED <<is_connected, result, locals, args>>

\* if verbose: ... for service in client.services: ...
Control_services ==
    /\ path = "control" /\ pc = "services"
    /\ log' = Append(log, ServicesEv)
    /\ pc' = "write1"
    /\ UNCHANGED <<is_connected, result, locals, args>>

\* A slip in the pairing: every code but FFF3 is given FFF3 as its alternate.
alt_char_short_for_any(c) ==
    IF Upper(c) = FFF3 THEN AFD3 ELSE FFF3

\* alt_char_short = None; if char_short.upper() == "AFD3": "FFF3";
\* elif char_short.upper() == "FFF3": "AFD3"   (None is the empty string here)
alt_char_short(c) ==
    IF Upper(c) = AFD3 THEN FFF3
    ELSE IF Upper(c) = FFF3 THEN AFD3
    ELSE NoChar

\* A slip in the cascade: the second attempt is made whatever the first did.
Control_write1_no_stop ==
    /\ path = "control" /\ pc = "write1"
    /\ \E o \in WriteOutcomes :
         /\ log' = Append(log, WriteEv(UUID_TEMPLATE(char_short), FALSE, payload, o))
         /\ write_success' = o.ok
         /\ e1' = Err("write", UUID_TEMPLATE(char_short), FALSE, o.reason)
         /\ last_error' = e1'
         /\ pc' = "write2"
    /\ UNCHANGED <<is_connected, result, e2, e3, args>>

\* write_success = False; last_error = None;
\* await client.write_gatt_char(char_uuid, payload, response=False)
Control_write1 ==
    /\ path = "control" /\ pc = "write1"
    /\ \E o \in WriteOutcomes :
         /\ log' = Append(log, WriteEv(UUID_TEMPLATE(char_short), FALSE, payload, o))
         /\ IF o.ok
            THEN /\ write_success' = TRUE
                 /\ pc' = "after_write"
                 /\ UNCHANGED <<e1, last_error>>
            ELSE /\ e1' = Err("write", UUID_TEMPLATE(char_short), FALSE, o.reason)
                 /\ last_error' = e1'
                 /\ pc' = "write2"
                 /\ UNCHANGED write_success
    /\ UNCHANGED <<is_connected, result, e2, e3, args>>

\* except Exception as e1: ... await client.write_gatt_char(char_uuid, payload,
\* response=True); except Exception as e2: the alternate characteristic, or
\* raise RuntimeError(f"Write failed: {e1}, {e2}")
Control_write2 ==
    /\ path = "control" /\ pc = "write2"
    /\ \E o \in WriteOutcomes :
         /\ log' = Append(log, WriteEv(UUID_TEMPLATE(char_short), TRUE, payload, o))
         /\ IF o.ok
            THEN /\ write_success' = TRUE
                 /\ pc' = "after_write"
                 /\ UNCHANGED <<e2, last_error, result>>
            ELSE /\ e2' = Err("write", UUID_TEMPLATE(char_short), TRUE, o.reason)
                 /\ last_error' = e2'
                 /\ UNCHANGED write_success
                 /\ IF alt_char_short(char_short) # NoChar
                    THEN pc' = "write3" /\ UNCHANGED result
                    ELSE pc' = "finally" /\ result' = Outcome("write_failed", <<e1, e2'>>)
    /\ UNCHANGED <<is_connected, e1, e3, args>>

\* await client.write_gatt_char(alt_char_uuid, payload, response=False);
\* except Exception: (the exception is not bound)
Control_write3 ==
    /\ path = "control" /\ pc = "write3"
    /\ \E o \in WriteOutcomes :
         /\ log' = Append(log, WriteEv(UUID_TEMPLATE(alt_char_short(char_short)), FALSE, payload, o))
         /\ IF o.ok
            THEN write_success' = TRUE /\ pc' = "after_write"
            ELSE pc' = "write4" /\ UNCHANGED write_success
    /\ UNCHANGED <<is_connected, result, last_error, e1, e2, e3, args>>

\* A slip: the last failure does not raise at once but falls through to the
\* check after the fallbacks.
Control_write4_falls_through ==
    /\ path = "control" /\ pc = "write4"
    /\ \E o \in WriteOutcomes :
         /\ log' = Append(log, WriteEv(UUID_TEMPLATE(alt_char_short(char_short)), TRUE, payload, o))
         /\ IF o.ok
            THEN write_success' = TRUE /\ UNCHANGED e3
            ELSE /\ e3' = Err("write", UUID_TEMPLATE(alt_char_short(char_short)), TRUE, o.reason)
                 /\ UNCHANGED write_success
         /\ pc' = "after_write"
    /\ UNCHANGED <<is_connected, result, last_error, e1, e2, args>>

\* await client.write_gatt_char(alt_char_uuid, payload, response=True);
\* except Exception as e3:
\*     raise RuntimeError(f"All write attempts failed: {e1}, {e2}, {e3}")
Control_write4 ==
    /\ path = "control" /\ pc = "write4"
    /\ \E o \in WriteOutcomes :
         /\ log' = Append(log, WriteEv(UUID_TEMPLATE(alt_char_short(char_short)), TRUE, payload, o))
         /\ IF o.ok
            THEN /\ write_success' = TRUE
                 /\ pc' = "after_write"
                 /\ UNCHANGED <<e3, result>>
            ELSE /\ e3' = Err("write", UUID_TEMPLATE(alt_char_short(char_short)), TRUE, o.reason)
                 /\ pc' = "finally"
                 /\ result' = Outcome("write_failed", <<e1, e2, e3'>>)
                 /\ UNCHANGED write_success
    /\ UNCHANGED <<is_connected, last_error, e1, e2, args>>

\* A slip: the delay before disconnecting is left out.
Control_after_write_no_sleep ==
    /\ path = "control" /\ pc = "after_write"
    /\ result' = IF write_success THEN Outcome("returned", <<>>)
                 ELSE Outcome("write_failed", <<last_error>>)
    /\ pc' = "finally"
    /\ UNCHANGED <<log, is_connected, locals, args>>

\* if write_success: await asyncio.sleep(0.2)
\* else: raise RuntimeError(f"Write failed: {last_error}")
Control_after_write ==
    /\ path = "control" /\ pc = "after_write"
    /\ IF write_success
       THEN /\ log' = Append(log, SleepEv(200))
            /\ result' = Outcome("returned", <<>>)
       ELSE /\ result' = Outcome("write_failed", <<last_error>>)
            /\ UNCHANGED log
    /\ pc' = "finally"
    /\ UNCHANGED <<is_connected, locals, args>>

\* finally: try: if client.is_connected: await client.disconnect()
\*          except Exception: pass
Control_finally ==
    /\ path = "control" /\ pc = "finally"
    /\ IF is_connected
       THEN \E o \in DisconnectOutcomes :
              /\ log' = Append(log, DisconnectEv(o.ok, o.up, o.reason))
              /\ is_connected' = o.up
       ELSE UNCHANGED <<log, is_connected>>
    /\ pc' = "done"
    /\ UNCHANGED <<result, locals, args>>

(***************************************************************************)
(* led_menu.py: write_command                                              *)
(***************************************************************************)
\* send_command's else branch: await write_command(addr, mapping["service"],
\* mapping["write"], payload), payload the ON or OFF command of the main menu.
Menu_write_command ==
    /\ pc = "idle"
    /\ \E mapping \in DEVICE_MAPPINGS, on \in BOOLEAN :
         /\ path' = "menu"
         /\ char_short' = mapping.write
         /\ payload' = Menu_build_on_off_cmd(on)
         /\ request' = Request("on_off", mapping.type, 0)
    /\ verbose' = FALSE
    /\ UNCHANGED outside
    /\ pc' = "connect"
    /\ log' = <<>>
    /\ result' = Running
    /\ is_connected' = FALSE
    /\ write_success' = FALSE
    /\ last_error' = NoError
    /\ e1' = NoError
    /\ e2' = NoError
    /\ e3' = NoError

\* await client.connect()
Menu_connect ==
    /\ path = "menu" /\ pc = "connect"
    /\ \E o \in ConnectOutcomes :
         /\ log' = Append(log, ConnectEv(o.ok, o.up, o.reason))
         /\ is_connected' = o.up
         /\ IF o.ok
            THEN pc' = "check" /\ UNCHANGED result
            ELSE /\ pc' = "finally"
                 /\ result' = Outcome("connect_raised", <<Err("connect", NoChar, FALSE, o.reason)>>)
    /\ UNCHANGED <<locals, args>>

\* if not client.is_connected: raise RuntimeError("Failed to connect")
Menu_check ==
    /\ path = "menu" /\ pc = "check"
    /\ IF is_connected
       THEN pc' = "settle" /\ UNCHANGED result
       ELSE pc' = "finally" /\ result' = Outcome("not_connected", <<>>)
    /\ UNCHANGED <<log, is_connected, locals, args>>

\* await asyncio.sleep(0.3)
Menu_settle ==
    /\ path = "menu" /\ pc = "settle"
    /\ log' = Append(log, SleepEv(300))
    /\ pc' = "write1"
    /\ UNCHANGED <<is_connected, result, locals, args>>

\* try: await client.write_gatt_char(char_uuid, payload, response=False)
\* except Exception: (the exception is not bound)
Menu_write1 ==
    /\ path = "menu" /\ pc = "write1"
    /\ \E o \in WriteOutcomes :
         /\ log' = Append(log, WriteEv(UUID_TEMPLATE(char_short), FALSE, payload, o))
         /\ pc' = IF o.ok THEN "after_write" ELSE "write2"
    /\ UNCHANGED <<is_connected, result, locals, args>>

\* await client.write_gatt_char(char_uuid, payload, response=True): its
\* exception leaves write_command
Menu_write2 ==
    /\ path = "menu" /\ pc = "write2"
    /\ \E o \in WriteOutcomes :
         /\ log' = Append(log, WriteEv(UUID_TEMPLATE(char_short), TRUE, payload, o))
         /\ IF o.ok
            THEN pc' = "after_write" /\ UNCHANGED result
            ELSE /\ pc' = "finally"
                 /\ result' = Outcome("write_failed",
                                      <<Err("write", UUID_TEMPLATE(char_short), TRUE, o.reason)>>)
    /\ UNCHANGED <<is_connected, locals, args>>

\* await asyncio.sleep(0.2)
Menu_after_write ==
    /\ path = "menu" /\ pc = "after_write"
    /\ log' = Append(log, SleepEv(200))
    /\ result' = Outcome("returned", <<>>)
    /\ pc' = "finally"
    /\ UNCHANGED <<is_connected, locals, args>>

\* finally: if client.is_connected: try: await client.disconnect()
\*                                  except Exception: pass
Menu_finally ==
    /\ path = "menu" /\ pc = "finally"
    /\ IF is_connected
       THEN \E o \in DisconnectOutcomes :
              /\ log' = Append(log, DisconnectEv(o.ok, o.up, o.reason))
              /\ is_connected' = o.up
       ELSE UNCHANGED <<log, is_connected>>
    /\ pc' = "done"
    /\ UNCHANGED <<result, locals, args>>

(***************************************************************************)
(* led_menu.py: send_command(device, payload, action_name, is_color=True)  *)
(* Every exception of the try block is caught by "except Exception as e",  *)
(* which reports the failure; nothing else runs after it but a sleep.      *)
(***************************************************************************)
\* brightness_menu / color menus call send_command(..., is_color=True);
\* char_uuid = UUID_TEMPLATE % mapping["write"]; client = BleakClient(addr)
Send_command_color ==
    /\ pc = "idle"
    /\ \E mapping \in DEVICE_MAPPINGS :
         \E cmd \in ColorPayloads(mapping.type) :
            /\ path' = "color"
            /\ char_short' = mapping.write
            /\ payload' = cmd
            /\ request' = Request("color", mapping.type, 0)
    /\ verbose' = FALSE
    /\ UNCHANGED outside
    /\ pc' = "connect"
    /\ log' = <<>>
    /\ result' = Running
    /\ is_connected' = FALSE
    /\ write_success' = FALSE
    /\ last_error' = NoError
    /\ e1' = NoError
    /\ e2' = NoError
    /\ e3' = NoError

\* A slip: the brightness command is sent whatever the device's type.
brightness_menu_any_type ==
    /\ pc = "idle"
    /\ \E mapping \in DEVICE_MAPPINGS, brightness \in 0..255 :
         /\ request' = Request("brightness", mapping.type, brightness)
         /\ path' = "color"
         /\ char_short' = mapping.write
         /\ payload' = brightness_cmd(brightness)
         /\ pc' = "connect"
         /\ result' = Running
    /\ verbose' = FALSE
    /\ log' = <<>>
    /\ is_connected' = FALSE
    /\ UNCHANGED <<locals, outside>>

\* brightness_menu(device) with a brightness chosen (64, 128, 192, 255, or a
\* custom value that passed 0 <= brightness <= 255): a floor lamp is sent
\* the command by send_command(..., is_color=True); for any other type the
\* menu prints that brightness is not supported and returns.
brightness_menu ==
    /\ pc = "idle"
    /\ \E mapping \in DEVICE_MAPPINGS, brightness \in 0..255 :
         /\ request' = Request("brightness", mapping.type, brightness)
         /\ IF mapping.type = "floor"
            THEN /\ path' = "color"
                 /\ char_short' = mapping.write
                 /\ payload' = brightness_cmd(brightness)
                 /\ pc' = "connect"
                 /\ result' = Running
            ELSE /\ path' = "none"
                 /\ char_short' = NoChar
                 /\ payload' = NoData
                 /\ pc' = "idle"
                 /\ result' = Outcome("unsupported", <<>>)
    /\ verbose' = FALSE
    /\ log' = <<>>
    /\ is_connected' = FALSE
    /\ UNCHANGED <<locals, outside>>

\* await client.connect()      (client.is_connected is not looked at)
Send_connect ==
    /\ path = "color" /\ pc = "connect"
    /\ \E o \in ConnectOutcomes :
         /\ log' = Append(log, ConnectEv(o.ok, o.up, o.reason))
         /\ is_connected' = o.up
         /\ IF o.ok
            THEN pc' = "settle" /\ UNCHANGED result
            ELSE /\ pc' = "done"
                 /\ result' = Outcome("connect_raised", <<Err("connect", NoChar, FALSE, o.reason)>>)
    /\ UNCHANGED <<locals, args>>

\* await asyncio.sleep(0.3)
Send_settle ==
    /\ path = "color" /\ pc = "settle"
    /\ log' = Append(log, SleepEv(300))
    /\ pc' = "on_write"
    /\ UNCHANGED <<is_connected, result, locals, args>>

\* A slip: a failure of the ON write is ignored and the payload is written.
Send_on_write_failure_ignored ==
    /\ path = "color" /\ pc = "on_write"
    /\ \E o \in WriteOutcomes :
         log' = Append(log, WriteEv(UUID_TEMPLATE(char_short), FALSE,
                                    Menu_build_on_off_cmd(TRUE), o))
    /\ pc' = "on_settle"
    /\ UNCHANGED <<is_connected, result, locals, args>>

\* on_cmd = build_on_off_cmd(True)
\* await client.write_gatt_char(char_uuid, on_cmd, response=False)
Send_on_write ==
    /\ path = "color" /\ pc = "on_write"
    /\ \E o \in WriteOutcomes :
         /\ log' = Append(log, WriteEv(UUID_TEMPLATE(char_short), FALSE,
                                       Menu_build_on_off_cmd(TRUE), o))
         /\ IF o.ok
            THEN pc' = "on_settle" /\ UNCHANGED result
            ELSE /\ pc' = "done"
                 /\ result' = Outcome("write_failed",
                                      <<Err("write", UUID_TEMPLATE(char_short), FALSE, o.reason)>>)
    /\ UNCHANGED <<is_connected, locals, args>>

\* await asyncio.sleep(0.5)
Send_on_settle ==
    /\ path = "color" /\ pc = "on_settle"
    /\ log' = Append(log, SleepEv(500))
    /\ pc' = "color_write"
    /\ UNCHANGED <<is_connected, result, locals, args>>

\* await client.write_gatt_char(char_uuid, payload, response=False)
Send_color_write ==
    /\ path = "color" /\ pc = "color_write"
    /\ \E o \in WriteOutcomes :
         /\ log' = Append(log, WriteEv(UUID_TEMPLATE(char_short), FALSE, payload, o))
         /\ IF o.ok
            THEN pc' = "after_write" /\ UNCHANGED result
            ELSE /\ pc' = "done"
                 /\ result' = Outcome("write_failed",
                                      <<Err("write", UUID_TEMPLATE(char_short), FALSE, o.reason)>>)
    /\ UNCHANGED <<is_connected, locals, args>>

\* await asyncio.sleep(0.2)
Send_after_write ==
    /\ path = "color" /\ pc = "after_write"
    /\ log' = Append(log, SleepEv(200))
    /\ pc' = "disconnect"
    /\ UNCHANGED <<is_connected, result, locals, args>>

\* await client.disconnect(), inside the try block: when it raises, the
\* failure is reported; otherwise "sent successfully" is.
Send_disconnect ==
    /\ path = "color" /\ pc = "disconnect"
    /\ \E o \in DisconnectOutcomes :
         /\ log' = Append(log, DisconnectEv(o.ok, o.up, o.reason))
         /\ is_connected' = (is_connected /\ o.up)
         /\ result' = IF o.ok
                      THEN Outcome("returned", <<>>)
                      ELSE Outcome("disconnect_raised",
                                   <<Err("disconnect", NoChar, FALSE, o.reason)>>)
    /\ pc' = "done"
    /\ UNCHANGED <<locals, args>>

\* Most connections left open that are counted.
MaxLingering == 1

\* The delivery has returned or raised to its caller, which has looked at
\* the outcome; the function's locals and its client object are gone, and the
\* next delivery may start.  Nothing disconnects a client that is still
\* connected at that point: a delivery of the menu session (all of them go to
\* the address of the selected device) leaves its connection open.
Return ==
    /\ pc = "done"
    /\ pc' = "idle"
    /\ path' = "none"
    /\ char_short' = NoChar
    /\ payload' = NoData
    /\ verbose' = FALSE
    /\ is_connected' = FALSE
    /\ log' = <<>>
    /\ write_success' = FALSE
    /\ last_error' = NoError
    /\ e1' = NoError
    /\ e2' = NoError
    /\ e3' = NoError
    /\ result' = Running
    /\ request' = NoRequest
    /\ lingering' = IF path \in {"menu", "color"} /\ is_connected /\ lingering < MaxLingering
                    THEN lingering + 1
                    ELSE lingering
    /\ UNCHANGED <<enc_call, enc_out, reg_call, reg_out, scan_call, scan_out, cli,
                   ses_pc, ses_devices, ses_device, ses_log>>

\* A connection left open drops (the device goes out of range or is powered off).
LingeringLost ==
    /\ lingering > 0
    /\ lingering' = lingering - 1
    /\ UNCHANGED <<delivery, enc_call, enc_out, reg_call, reg_out, scan_call, scan_out, cli,
                   ses_pc, ses_devices, ses_device, ses_log>>

Next ==
    \/ LinkLost
    \/ LingeringLost
    \/ Control_write_command
    \/ Control_connect
    \/ Control_check
    \/ Control_settle
    \/ Control_services
    \/ Control_write1
    \/ Control_write2
    \/ Control_write3
    \/ Control_write4
    \/ Control_after_write
    \/ Control_finally
    \/ Menu_write_command
    \/ Menu_connect
    \/ Menu_check
    \/ Menu_settle
    \/ Menu_write1
    \/ Menu_write2
    \/ Menu_after_write
    \/ Menu_finally
    \/ Send_command_color
    \/ brightness_menu
    \/ Send_connect
    \/ Send_settle
    \/ Send_on_write
    \/ Send_on_settle
    \/ Send_color_write
    \/ Send_after_write
    \/ Send_disconnect
    \/ Return

Spec == Init /\ [][Next]_vars

(***************************************************************************)
(* Properties of a delivery, stated on its log.                            *)
(***************************************************************************)
Writes == SelectSeq(log, LAMBDA e : e.op = "write")

Count(op) == Len(SelectSeq(log, LAMBDA e : e.op = op))

\* The two short codes that alias the same characteristic.
PairCodes == {AFD3, FFF3}
OtherOfPair(c) == IF c = AFD3 THEN FFF3 ELSE AFD3

\* Step i of the fallback order: 1 primary without response, 2 primary with
\* response, 3 alternate without response, 4 alternate with response.
StepChar(i) ==
    IF i <= 2 THEN UUID_TEMPLATE(char_short)
    ELSE UUID_TEMPLATE(OtherOfPair(Upper(char_short)))
StepResponse(i) == i \in {2, 4}

InWriteCommand == path \in {"control", "menu"}

\* C1: in a write_command call the i-th write attempt is step i of the order
\* primary without response, primary with response, alternate without
\* response, alternate with response; every attempt but the last one issued
\* has failed, so nothing is written after the first success.
C1_FallbackOrder ==
    InWriteCommand =>
        /\ Len(Writes) <= 4
        /\ \A i \in 1..Len(Writes) :
             /\ Writes[i].char = StepChar(i)
             /\ Writes[i].response = StepResponse(i)
             /\ Writes[i].data = payload
             /\ (i < Len(Writes) => ~Writes[i].ok)

\* C1's case: three failures, then the alternate with response succeeds.
C1_Witness ==
    /\ pc = "done" /\ path = "control"
    /\ Len(Writes) = 4 /\ Writes[4].ok
    /\ result.kind = "returned"

\* C2: a write_command call on a code of the alternate pair fails with a
\* write failure only after all four steps were attempted and failed.
C2_AllFourBeforeWriteFailed ==
    (pc = "done" /\ InWriteCommand /\ Upper(char_short) \in PairCodes
        /\ result.kind = "write_failed")
    => (Len(Writes) = 4 /\ \A i \in 1..4 : ~Writes[i].ok)

\* C3: the error led_control.write_command raises when every attempt failed
\* carries the reason of each attempted step, none left out.
C3_EveryReasonCarried ==
    (pc = "done" /\ path = "control" /\ result.kind = "write_failed")
    => /\ Len(result.reasons) = Len(Writes)
       /\ \A i \in 1..Len(Writes) :
            \E j \in 1..Len(result.reasons) :
                result.reasons[j] = Err("write", Writes[i].char, Writes[i].response,
                                        Writes[i].reason)

\* C4: steps 3 and 4 are attempted only for a code that is, in upper case,
\* AFD3 or FFF3, and then on the other code of the pair; for any other code
\* a call whose two primary attempts fail ends as a write failure after
\* exactly two attempts.
C4_AlternateOnlyForPair ==
    InWriteCommand =>
        /\ \A i \in 3..Len(Writes) :
             /\ Upper(char_short) \in PairCodes
             /\ Writes[i].char = UUID_TEMPLATE(OtherOfPair(Upper(char_short)))
        /\ (pc = "done" /\ Upper(char_short) \notin PairCodes
               /\ Len(Writes) >= 2 /\ ~Writes[1].ok /\ ~Writes[2].ok)
           => (Len(Writes) = 2 /\ result.kind = "write_failed")

\* C4's case: both primary attempts failed on a code outside the pair.
C4_Witness ==
    /\ pc = "done" /\ path = "control" /\ char_short = AE10
    /\ Len(Writes) = 2 /\ ~Writes[1].ok /\ ~Writes[2].ok
    /\ result.kind = "write_failed"

ConnectFailed ==
    \E i \in 1..Len(log) : log[i].op = "connect" /\ (~log[i].ok \/ ~log[i].up)

\* C5: when connect raises, or returns with the client not connected, the
\* delivery issues no write and no second connect, and ends as a connection
\* failure.
C5_NoWriteAfterConnectFailure ==
    ConnectFailed =>
        /\ Count("write") = 0
        /\ Count("connect") = 1
        /\ (pc = "done" => result.kind \in {"connect_raised", "not_connected"})

Established ==
    \E i \in 1..Len(log) : log[i].op = "connect" /\ log[i].ok /\ log[i].up

\* C6: a delivery that established a connection attempts a disconnect before
\* it ends, unless the link is closed already: none ends with its link open
\* and no disconnect attempted.
C6_DisconnectOnEveryExit ==
    (pc = "done" /\ Established) => (Count("disconnect") >= 1 \/ ~is_connected)

\* C7: a disconnect that raises does not change how the delivery ends: it
\* ends as a success when its last write succeeded and as the failure
\* already determined otherwise.
C7_DisconnectErrorSwallowed ==
    (pc = "done" /\ \E i \in 1..Len(log) : log[i].op = "disconnect" /\ ~log[i].ok)
    => IF Writes # <<>> /\ Writes[Len(Writes)].ok
       THEN result.kind = "returned"
       ELSE result.kind \in {"write_failed", "not_connected", "connect_raised"}

\* C8: a delivery issues exactly one connect and at most one disconnect.
C8_OneConnectOneDisconnect ==
    /\ Count("connect") <= 1
    /\ Count("disconnect") <= 1
    /\ (pc \notin {"idle", "connect"} => Count("connect") = 1)

\* C8's case: a delivery whose writes all failed has ended, after one connect
\* and one disconnect.
C8_Witness ==
    /\ pc = "done" /\ result.kind = "write_failed"
    /\ Count("connect") = 1 /\ Count("disconnect") = 1

GattOps == {"write", "services"}

\* C9: every GATT operation (write, service enumeration) of a delivery comes
\* after a sleep that follows the connect's return, with no GATT operation
\* between the connect and that sleep.
C9_SettleBeforeFirstGattOp ==
    \A i \in 1..Len(log) :
        log[i].op \in GattOps =>
            \E k \in 1..(i - 1), j \in 1..(i - 1) :
                /\ k < j
                /\ log[k].op = "connect" /\ log[k].ok
                /\ log[j].op = "sleep"
                /\ \A m \in (k + 1)..(j - 1) : log[m].op \notin GattOps

\* C9's case: a verbose delivery has enumerated the services and written.
C9_Witness ==
    /\ \E i \in 1..Len(log) : log[i].op = "services"
    /\ Count("write") >= 1

\* C10: a sleep lies between any successful write and the disconnect that
\* follows it; a delivery none of whose writes succeeded sleeps after no write.
C10_SettleAfterSuccessfulWrite ==
    /\ \A i \in 1..Len(log), w \in 1..Len(log) :
         (log[i].op = "disconnect" /\ w < i /\ log[w].op = "write" /\ log[w].ok)
         => \E j \in (w + 1)..(i - 1) : log[j].op = "sleep"
    /\ (pc = "done" /\ \A w \in 1..Len(Writes) : ~Writes[w].ok)
       => \A w \in 1..Len(log), j \in 1..Len(log) :
            (log[w].op = "write" /\ w < j) => log[j].op # "sleep"

\* C10's case: the third step succeeded and the link was then closed.
C10_Witness ==
    /\ Len(Writes) = 3 /\ Writes[3].ok
    /\ Count("disconnect") = 1

(***************************************************************************)
(* The outcome of write_command, and the two writes of a colour delivery.  *)
(***************************************************************************)
\* Some write attempt of the delivery succeeded.
SomeWriteSucceeded == \E i \in 1..Len(Writes) : Writes[i].ok

\* C23: a write_command call that has ended returned normally exactly when
\* its connect returned with the link up and one of its write attempts
\* succeeded, and raised otherwise; and led_control's check after the
\* fallbacks is only ever reached with write_success true, so its raising
\* branch is never taken.
C23_ReturnsIffWritten ==
    /\ (InWriteCommand /\ pc = "done")
         => /\ result.kind # "running"
            /\ (result.kind = "returned" <=> (Established /\ SomeWriteSucceeded))
    /\ (path = "control" /\ pc = "after_write") => write_success

\* C23's case: a led_control write_command whose first two attempts failed
\* and whose third succeeded has returned.
C23_Witness ==
    /\ path = "control" /\ pc = "done"
    /\ result.kind = "returned"
    /\ Len(Writes) = 3 /\ ~Writes[1].ok /\ ~Writes[2].ok /\ Writes[3].ok

\* C24: a colour or brightness delivery of the menu connects at most once
\* and writes at most twice: first the ON command, then, only when that write
\* succeeded, the payload; both go to the device's own write characteristic
\* without response, so no attempt is repeated with response or on another
\* characteristic; and when it reports success both writes were made.
C24_OnThenPayload ==
    path = "color"
    => /\ Count("connect") <= 1
       /\ Len(Writes) <= 2
       /\ \A i \in 1..Len(Writes) :
            /\ Writes[i].char = UUID_TEMPLATE(char_short)
            /\ ~Writes[i].response
       /\ Len(Writes) >= 1 => Writes[1].data = <<91, 240, 1, 181>>
       /\ Len(Writes) = 2 => (Writes[1].ok /\ Writes[2].data = payload)
       /\ (Writes # <<>> => log[1].op = "connect")
       /\ (result.kind = "returned"
             => (Len(Writes) = 2 /\ Writes[1].ok /\ Writes[2].ok))

\* C24's case: a brightness delivery has ended with both writes made.
C24_Witness ==
    /\ path = "color" /\ pc = "done"
    /\ request.op = "brightness"
    /\ result.kind = "returned"
    /\ Len(Writes) = 2 /\ Writes[2].data = brightness_cmd(request.level)

\* C21: while a delivery of the menu session has had its connect called, no
\* connection of an earlier delivery to the same address is still open.
C21_NoTwoConnections ==
    (path \in {"menu", "color"} /\ Count("connect") >= 1) => lingering = 0

\* C14: after a brightness request for a ceiling device, whatever the level,
\* nothing was built or sent: no connect, no write, no payload, and the
\* request ended as unsupported.
C14_CeilingBrightnessUnsupported ==
    (request.op = "brightness" /\ request.type = "ceiling")
    => /\ log = <<>>
       /\ payload = NoData
       /\ pc = "idle"
       /\ result.kind = "unsupported"

\* C14's case: full brightness was asked of a ceiling device.
C14_Witness ==
    request = Request("brightness", "ceiling", 255)

(***************************************************************************)
(* The command builders, each called once on arguments drawn at the start. *)
(***************************************************************************)
\* Colour components tried: values of 0..255 with one and with two
\* hexadecimal digits, and values outside 0..255 (a preset file may hold any
\* integer: color_preset_menu passes rgb['r'], rgb['g'], rgb['b'] unchecked).
ColorComponents == {0, 1, 15, 16, 128, 255} \cup {-1, 256, 300, 4096}

DeviceTypes == {"ceiling", "floor"}

EncoderCalls ==
    {EncCall(fn, on, 0, 0, 0, "none", 0) :
        fn \in {"control.build_on_off_cmd", "menu.build_on_off_cmd"}, on \in BOOLEAN}
    \cup {EncCall("build_color_cmd", FALSE, r, g, b, t, 255) :
            r \in ColorComponents, g \in ColorComponents, b \in ColorComponents,
            t \in DeviceTypes}
    \cup {EncCall("brightness_cmd", FALSE, 0, 0, 0, "floor", l) : l \in 0..255}

InitEncoder ==
    /\ DeliveryIdle
    /\ enc_call \in EncoderCalls
    /\ enc_out = EncPending
    /\ RegistryIdle
    /\ ScanIdle
    /\ CliIdle
    /\ SessionIdle

\* led_control.build_on_off_cmd(is_on)
Encode_control_on_off ==
    /\ enc_call.fn = "control.build_on_off_cmd" /\ enc_out = EncPending
    /\ enc_out' = EncReturned(Control_build_on_off_cmd(enc_call.is_on))
    /\ UNCHANGED <<delivery, enc_call, reg_call, reg_out, scan_call, scan_out, cli, ses>>

\* led_menu.build_on_off_cmd(is_on)
Encode_menu_on_off ==
    /\ enc_call.fn = "menu.build_on_off_cmd" /\ enc_out = EncPending
    /\ enc_out' = EncReturned(Menu_build_on_off_cmd(enc_call.is_on))
    /\ UNCHANGED <<delivery, enc_call, reg_call, reg_out, scan_call, scan_out, cli, ses>>

\* led_menu.build_color_cmd(r, g, b, device_type): return bytes.fromhex(cmd_str)
Encode_color ==
    /\ enc_call.fn = "build_color_cmd" /\ enc_out = EncPending
    /\ LET cmd_str == color_cmd_str(enc_call.r, enc_call.g, enc_call.b,
                                    enc_call.device_type, enc_call.brightness)
       IN  enc_out' = IF HexOk(cmd_str)
                      THEN EncReturned(build_color_cmd(enc_call.r, enc_call.g, enc_call.b,
                                                       enc_call.device_type,
                                                       enc_call.brightness))
                      ELSE EncRaised
    /\ UNCHANGED <<delivery, enc_call, reg_call, reg_out, scan_call, scan_out, cli, ses>>

\* brightness_menu's cmd = bytes.fromhex(cmd_str) for a floor lamp
Encode_brightness ==
    /\ enc_call.fn = "brightness_cmd" /\ enc_out = EncPending
    /\ enc_out' = EncReturned(brightness_cmd(enc_call.brightness))
    /\ UNCHANGED <<delivery, enc_call, reg_call, reg_out, scan_call, scan_out, cli, ses>>

NextEncoder ==
    \/ Encode_control_on_off
    \/ Encode_menu_on_off
    \/ Encode_color
    \/ Encode_brightness

SpecEncoder == InitEncoder /\ [][NextEncoder]_vars

InRange(x) == x \in 0..255

InRangeColorBuilt ==
    /\ enc_call.fn = "build_color_cmd" /\ enc_out # EncPending
    /\ InRange(enc_call.r) /\ InRange(enc_call.g) /\ InRange(enc_call.b)

\* C12 as claimed: for r, g, b in 0..255 build_color_cmd returns 9 bytes for
\* a ceiling device and 10 for a floor lamp, and in both bytes 4, 5, 6 are
\* r, g, b.
C12_ColorLayoutAsClaimed ==
    InRangeColorBuilt
    => /\ enc_out.status = "returned"
       /\ Len(enc_out.bytes) = (IF enc_call.device_type = "floor" THEN 10 ELSE 9)
       /\ enc_out.bytes[4] = enc_call.r
       /\ enc_out.bytes[5] = enc_call.g
       /\ enc_out.bytes[6] = enc_call.b

\* C12: for r, g, b in 0..255 build_color_cmd returns 10 bytes for a floor
\* lamp, bytes 4, 5, 6 being r, g, b, and 9 bytes for a ceiling device, whose
\* header 7E 07 05 03 is four bytes long: bytes 5, 6, 7 are r, g, b.
C12_ColorLayout ==
    InRangeColorBuilt
    => LET first == IF enc_call.device_type = "floor" THEN 4 ELSE 5
       IN  /\ enc_out.status = "returned"
           /\ Len(enc_out.bytes) = (IF enc_call.device_type = "floor" THEN 10 ELSE 9)
           /\ enc_out.bytes[first] = enc_call.r
           /\ enc_out.bytes[first + 1] = enc_call.g
           /\ enc_out.bytes[first + 2] = enc_call.b

\* C12's case: a ceiling device's command for a colour with one-digit and
\* two-digit components has been built.
C12_Witness ==
    /\ enc_call = EncCall("build_color_cmd", FALSE, 1, 16, 255, "ceiling", 255)
    /\ enc_out.status = "returned"

\* C13: build_color_cmd raises for every input with a component outside
\* 0..255; it never returns a payload for one.
C13_OutOfRangeRejected ==
    (enc_call.fn = "build_color_cmd" /\ enc_out # EncPending
        /\ ~(InRange(enc_call.r) /\ InRange(enc_call.g) /\ InRange(enc_call.b)))
    => enc_out.status = "raised"

\* C15: the floor lamp's brightness command is 10 bytes, 5A 00 02 00 00 00 00
\* LL 00 A5: the bytes at the RGB positions 4, 5, 6 are zero, byte 8 is the
\* level, and every other byte is a constant.
C15_BrightnessLayout ==
    (enc_call.fn = "brightness_cmd" /\ enc_out # EncPending)
    => /\ enc_out.status = "returned"
       /\ enc_out.bytes = <<90, 0, 2, 0, 0, 0, 0, enc_call.brightness, 0, 165>>

\* C15's case: the command for a one-digit level has been built.
C15_Witness ==
    /\ enc_call.fn = "brightness_cmd" /\ enc_call.brightness = 9
    /\ enc_out.status = "returned"

\* C16: build_on_off_cmd of either module returns 5B F0 01 B5 for on and
\* 5B 0F 01 B5 for off, so the two modules return the same bytes.
C16_OnOffConstants ==
    (enc_call.fn \in {"control.build_on_off_cmd", "menu.build_on_off_cmd"}
        /\ enc_out # EncPending)
    => /\ enc_out.status = "returned"
       /\ enc_out.bytes = (IF enc_call.is_on THEN <<91, 240, 1, 181>>
                           ELSE <<91, 15, 1, 181>>)

\* C16's case: led_control's builder has built the off command.
C16_Witness ==
    /\ enc_call.fn = "control.build_on_off_cmd" /\ ~enc_call.is_on
    /\ enc_out.status = "returned"

(***************************************************************************)
(* Resolution of an advertised name to a table entry.                      *)
(***************************************************************************)
\* str.startswith
StartsWith(name, prefix) ==
    Len(name) >= Len(prefix) /\ SubSeq(name, 1, Len(prefix)) = prefix

\* An advertised name: the characters one by one, then the rest in one piece.
KS03_tilde == Prefix("0", "3", "~")
KS03_dash == Prefix("0", "3", "-")

\* Names tried: names under each prefix of led_menu's table, a name that is
\* a prefix and nothing else, names under prefixes only led_control knows,
\* a foreign name, names too short to hold a prefix, a lower-case name, and
\* the empty name scan_devices uses for an advertisement without a name.
AdvertisedNames ==
    { KS03_tilde \o <<"370058">>,
      KS03_dash \o <<"112233">>,
      Prefix("0", "4", "-") \o <<"A", "B">>,
      Prefix("0", "1", "-"),
      Prefix("0", "2", "-") \o <<"1">>,
      Prefix("1", "5", "~") \o <<"1">>,
      Prefix("9", "9", "-") \o <<"anything">>,
      <<"K", "S", "0", "3">>,
      <<"K", "S", "0">>,
      <<"k", "s", "0", "3", "-", "1">>,
      <<>> }

\* A slip: only the first four characters of the prefix are compared.
RECURSIVE first_matching_prefix_short(_, _)
first_matching_prefix_short(name, order) ==
    IF order = <<>> THEN NoPrefix
    ELSE IF StartsWith(name, SubSeq(Head(order), 1, 4)) THEN Head(order)
    ELSE first_matching_prefix_short(name, Tail(order))

\* scan_devices: for prefix in DEVICE_MAPPINGS.keys():
\*                   if name.startswith(prefix): ...; break
RECURSIVE first_matching_prefix(_, _)
first_matching_prefix(name, order) ==
    IF order = <<>> THEN NoPrefix
    ELSE IF StartsWith(name, Head(order)) THEN Head(order)
    ELSE first_matching_prefix(name, Tail(order))

\* DEVICE_MAPPINGS[prefix] / DEVICE_UUIDS[prefix]
Lookup(table, prefix) == CHOOSE m \in table : m.prefix = prefix

\* The orders in which a table's keys can be iterated.
KeyOrders(table) ==
    LET keys == {m.prefix : m \in table}
        n == Cardinality(keys)
    IN  {o \in [1..n -> keys] : \A i, j \in 1..n : o[i] = o[j] => i = j}

\* The names find_all_ks03 returns to main: those starting with "KS03-" or
\* "KS03~".
IsKS03(name) == StartsWith(name, KS03_dash) \/ StartsWith(name, KS03_tilde)

InitRegistry ==
    /\ DeliveryIdle
    /\ EncoderIdle
    /\ reg_call \in {RegCall("scan_devices", name, order) :
                        name \in AdvertisedNames, order \in KeyOrders(DEVICE_MAPPINGS)}
                    \cup {RegCall("main", name, <<>>) :
                            name \in {x \in AdvertisedNames : IsKS03(x)}}
    /\ reg_out = RegPending
    /\ ScanIdle
    /\ CliIdle
    /\ SessionIdle

\* scan_devices' loop body for one advertisement, and send_command's
\* mapping = DEVICE_MAPPINGS[prefix] for the device it appended.
Resolve_scan_devices ==
    /\ reg_call.fn = "scan_devices" /\ reg_out = RegPending
    /\ LET prefix == first_matching_prefix(reg_call.name, reg_call.order)
       IN  reg_out' = IF prefix = NoPrefix THEN RegNothing
                      ELSE RegFound(Lookup(DEVICE_MAPPINGS, prefix))
    /\ UNCHANGED <<delivery, enc_call, enc_out, reg_call, scan_call, scan_out, cli, ses>>

\* led_control.main, for a target of find_all_ks03:
\* prefix = "KS03~" if name.startswith("KS03~") else "KS03-"
\* mapping = DEVICE_UUIDS[prefix]
Resolve_main ==
    /\ reg_call.fn = "main" /\ reg_out = RegPending
    /\ LET prefix == IF StartsWith(reg_call.name, KS03_tilde) THEN KS03_tilde
                     ELSE KS03_dash
       IN  reg_out' = RegFound(Lookup(DEVICE_UUIDS, prefix))
    /\ UNCHANGED <<delivery, enc_call, enc_out, reg_call, scan_call, scan_out, cli, ses>>

NextRegistry ==
    \/ Resolve_scan_devices
    \/ Resolve_main

SpecRegistry == InitRegistry /\ [][NextRegistry]_vars

\* The table the resolving code reads.
TableOf(fn) == IF fn = "main" THEN DEVICE_UUIDS ELSE DEVICE_MAPPINGS

\* The entries of a table whose prefix the name starts with.
Matching(table, name) == {m \in table : StartsWith(name, m.prefix)}

\* C11: at most one entry of the table matches a name; the resolution is
\* that entry whatever the order the prefixes are tried in, and nothing when
\* no entry matches; a name under "KS03~" resolves to AFD0/AFD1 and a name
\* under "KS03-" to FFF0/FFF3.
C11_ResolutionByPrefix ==
    reg_out # RegPending =>
        LET match == Matching(TableOf(reg_call.fn), reg_call.name)
        IN  /\ Cardinality(match) <= 1
            /\ \A m \in match : reg_out = RegFound(m)
            /\ (match = {} => reg_out = RegNothing)
            /\ (StartsWith(reg_call.name, KS03_tilde)
                   => reg_out = [status |-> "found", prefix |-> KS03_tilde,
                                 service |-> AFD0, write |-> AFD1])
            /\ (StartsWith(reg_call.name, KS03_dash)
                   => reg_out = [status |-> "found", prefix |-> KS03_dash,
                                 service |-> FFF0, write |-> FFF3])

\* C11's case: "KS03~370058" has been resolved by scan_devices with "KS03-"
\* tried before "KS03~".
C11_Witness ==
    /\ reg_call.fn = "scan_devices"
    /\ reg_call.name = KS03_tilde \o <<"370058">>
    /\ reg_call.order[1] = KS03_dash
    /\ reg_out.status = "found" /\ reg_out.prefix = KS03_tilde

(***************************************************************************)
(* The scan functions: BleakScanner.discover(timeout) is started and        *)
(* returns the devices around; each function filters them.                 *)
(***************************************************************************)
\* Most devices one discover returns in this model.
MaxFound == 2

\* Scan timeouts tried, in seconds: the default 8.0, zero and a negative one
\* (--timeout takes any float).
Timeouts == {8, 0, -1}

\* The addresses of the devices around.
DeviceAddresses ==
    <<"C0:00:00:00:00:01", "C0:00:00:00:00:02", "C0:00:00:00:00:03", "C0:00:00:00:00:04">>

\* An advertisement: an address and a name, has_name false when d.name is None.
Advert(address, has_name, name) ==
    [address |-> address, has_name |-> has_name, name |-> name]

\* What an advertisement can carry as its name.
AdvertNames ==
    { [has_name |-> TRUE, name |-> KS03_tilde \o <<"370058">>],
      [has_name |-> TRUE, name |-> KS03_dash \o <<"112233">>],
      [has_name |-> TRUE, name |-> Prefix("9", "9", "-") \o <<"anything">>],
      [has_name |-> FALSE, name |-> <<>>] }

\* The lists discover can return: up to MaxFound devices, the i-th at address i.
FoundLists ==
    UNION {{ [i \in 1..n |-> Advert(DeviceAddresses[i], f[i].has_name, f[i].name)] :
                 f \in [1..n -> AdvertNames] } : n \in 0..MaxFound}

\* DEVICE_MAPPINGS.keys(), in the dictionary's order
DEVICE_MAPPINGS_keys ==
    <<Prefix("0", "3", "-"), Prefix("0", "3", "~"), Prefix("0", "4", "-"),
      Prefix("0", "1", "-"), Prefix("0", "2", "-")>>

\* scan_devices: name = dev.name or ""
NameOrEmpty(d) == IF d.has_name THEN d.name ELSE <<>>

Device(address, name, prefix) == [address |-> address, name |-> name, prefix |-> prefix]

\* A slip: the name is not tested, every device is kept under the first prefix.
scan_devices_unfiltered(found) ==
    [i \in 1..Len(found) |->
        Device(found[i].address, NameOrEmpty(found[i]), DEVICE_MAPPINGS_keys[1])]

\* scan_devices: the list built from what discover found
scan_devices(found) ==
    LET prefix_of(d) == first_matching_prefix(NameOrEmpty(d), DEVICE_MAPPINGS_keys)
        kept == SelectSeq(found, LAMBDA d : prefix_of(d) # NoPrefix)
    IN  [i \in 1..Len(kept) |->
            Device(kept[i].address, NameOrEmpty(kept[i]), prefix_of(kept[i]))]

\* find_all_ks03: results.append((d.address, d.name)) for the devices with
\* d.name and (d.name.startswith("KS03-") or d.name.startswith("KS03~"))
find_all_ks03(found) ==
    LET kept == SelectSeq(found, LAMBDA d : d.has_name /\ d.name # <<>> /\ IsKS03(d.name))
    IN  [i \in 1..Len(kept) |-> Device(kept[i].address, kept[i].name, NoPrefix)]

\* find_device_by_prefix: the address of the first device with d.name and
\* d.name.startswith(prefix), or None (the empty list here)
find_device_by_prefix(prefix, found) ==
    LET kept == SelectSeq(found, LAMBDA d :
                    d.has_name /\ d.name # <<>> /\ StartsWith(d.name, prefix))
    IN  IF kept = <<>> THEN <<>> ELSE <<kept[1].address>>

InitScan ==
    /\ DeliveryIdle
    /\ EncoderIdle
    /\ RegistryIdle
    /\ scan_call \in
         {ScanCall(fn, t, NoPrefix, found) :
             fn \in {"scan_devices", "find_all_ks03"}, t \in Timeouts, found \in FoundLists}
         \cup {ScanCall("find_device_by_prefix", t, m.prefix, found) :
                 t \in Timeouts, found \in FoundLists,
                 m \in {x \in DEVICE_UUIDS : x.prefix \in {KS03_dash, KS03_tilde}}}
    /\ scan_out = ScanPending
    /\ CliIdle
    /\ SessionIdle

\* led_menu.scan_devices(timeout)
Scan_scan_devices ==
    /\ scan_call.fn = "scan_devices" /\ scan_out = ScanPending
    /\ scan_out' = ScanReturned(scan_call.timeout, scan_devices(scan_call.found))
    /\ UNCHANGED <<delivery, enc_call, enc_out, reg_call, reg_out, scan_call, cli, ses>>

\* led_control.find_all_ks03(timeout)
Scan_find_all_ks03 ==
    /\ scan_call.fn = "find_all_ks03" /\ scan_out = ScanPending
    /\ scan_out' = ScanReturned(scan_call.timeout, find_all_ks03(scan_call.found))
    /\ UNCHANGED <<delivery, enc_call, enc_out, reg_call, reg_out, scan_call, cli, ses>>

\* led_control.find_device_by_prefix(prefix, timeout)
Scan_find_device_by_prefix ==
    /\ scan_call.fn = "find_device_by_prefix" /\ scan_out = ScanPending
    /\ scan_out' = ScanReturned(scan_call.timeout,
                                find_device_by_prefix(scan_call.prefix, scan_call.found))
    /\ UNCHANGED <<delivery, enc_call, enc_out, reg_call, reg_out, scan_call, cli, ses>>

NextScan ==
    \/ Scan_scan_devices
    \/ Scan_find_all_ks03
    \/ Scan_find_device_by_prefix

SpecScan == InitScan /\ [][NextScan]_vars

\* C17: a scan asked for with a zero or negative timeout is rejected and
\* BleakScanner.discover is never started.
C17_NonPositiveTimeoutRejected ==
    (scan_out # ScanPending /\ scan_call.timeout <= 0)
    => (scan_out.status = "raised" /\ scan_out.discover = <<>>)

\* The prefixes a scan function knows.
KnownPrefixes(fn) ==
    IF fn = "scan_devices" THEN {m.prefix : m \in DEVICE_MAPPINGS}
    ELSE {KS03_dash, KS03_tilde}

\* C20: scan_devices and find_all_ks03 return, and never raise; the list
\* holds the devices found whose name starts with a known prefix, each once,
\* with its name, and no other; scan_devices pairs each with the prefix its
\* name starts with; a device without a name is dropped, and when no device
\* matches the list is empty.
C20_DiscoveryFilter ==
    (scan_out # ScanPending /\ scan_call.fn \in {"scan_devices", "find_all_ks03"})
    => LET found == scan_call.found
           devices == scan_out.devices
           known == KnownPrefixes(scan_call.fn)
           matches(d) == d.has_name /\ \E k \in known : StartsWith(d.name, k)
       IN  /\ scan_out.status = "returned"
           /\ \A i \in 1..Len(found) :
                Cardinality({j \in 1..Len(devices) :
                                devices[j].address = found[i].address})
                    = (IF matches(found[i]) THEN 1 ELSE 0)
           /\ \A j \in 1..Len(devices) :
                \E i \in 1..Len(found) :
                    /\ devices[j].address = found[i].address
                    /\ devices[j].name = found[i].name
                    /\ (scan_call.fn = "scan_devices"
                           => /\ devices[j].prefix \in known
                              /\ StartsWith(found[i].name, devices[j].prefix))
           /\ ((\A i \in 1..Len(found) : ~matches(found[i])) => devices = <<>>)

\* C20's case: scan_devices found a foreign device, then a KS03~ lamp, and
\* returned the lamp alone.
C20_Witness ==
    /\ scan_call.fn = "scan_devices"
    /\ Len(scan_call.found) = 2
    /\ scan_call.found[1].name = Prefix("9", "9", "-") \o <<"anything">>
    /\ scan_call.found[2].name = KS03_tilde \o <<"370058">>
    /\ scan_out.status = "returned"
    /\ Len(scan_out.devices) = 1 /\ scan_out.devices[1].prefix = KS03_tilde

(***************************************************************************)
(* led_control.main: the command line run, one step per await.  A          *)
(* write_command call is one step here; it returns or raises, as the       *)
(* delivery actions above show it can.                                     *)
(***************************************************************************)
\* An address typed on the command line.
TypedAddress == "AA:BB:CC:DD:EE:FF"

\* Command lines tried: both actions; a prefix of the table, the default one,
\* and an unknown one; --address absent, empty, or typed; --all-ks03 or not.
CommandLines ==
    { CliArgs(action, model_prefix, a.given, a.address, all_ks03, timeout, found) :
        action \in {"on", "off"},
        model_prefix \in {KS03_dash, DEFAULT_PREFIX, Prefix("9", "9", "-")},
        a \in { [given |-> FALSE, address |-> DEFAULT_ADDRESS],
                [given |-> TRUE, address |-> ""],
                [given |-> TRUE, address |-> TypedAddress] },
        all_ks03 \in BOOLEAN,
        timeout \in {8, 0},
        found \in FoundLists }

InitCli ==
    /\ DeliveryIdle
    /\ EncoderIdle
    /\ RegistryIdle
    /\ ScanIdle
    /\ cli_args \in CommandLines
    /\ cli_pc = "parse"
    /\ cli_targets = <<>>
    /\ cli_address = ""
    /\ cli_log = <<>>
    /\ cli_exit = CliRunning
    /\ SessionIdle

\* raise SystemExit(message), or an exception that leaves asyncio.run(main()):
\* the process ends with status 1
Cli_raise ==
    /\ cli_pc' = "exit"
    /\ cli_exit' = CliExited(1)

\* main returns: the process ends with status 0
Cli_return ==
    /\ cli_pc' = "exit"
    /\ cli_exit' = CliExited(0)

\* l.160-166: the prefix is looked up, the payload is built
Cli_parse ==
    /\ cli_pc = "parse"
    /\ IF cli_args.model_prefix \notin {m.prefix : m \in DEVICE_UUIDS}
       THEN Cli_raise
       ELSE /\ cli_pc' = IF cli_args.all_ks03 THEN "find_all" ELSE "single"
            /\ UNCHANGED cli_exit
    /\ UNCHANGED <<delivery, enc_call, enc_out, reg_call, reg_out, scan_call, scan_out, ses,
                   cli_args, cli_targets, cli_address, cli_log>>

\* l.168-171: targets = await find_all_ks03(timeout=args.timeout)
Cli_find_all ==
    /\ cli_pc = "find_all"
    /\ cli_log' = Append(cli_log, CliScan(cli_args.timeout))
    /\ cli_targets' = find_all_ks03(cli_args.found)
    /\ IF cli_targets' = <<>>
       THEN Cli_raise
       ELSE cli_pc' = "each" /\ UNCHANGED cli_exit
    /\ UNCHANGED <<delivery, enc_call, enc_out, reg_call, reg_out, scan_call, scan_out, ses,
                   cli_args, cli_address>>

\* A slip: a write_command that raises is not caught, and ends the run.
Cli_write_each_uncaught ==
    /\ cli_pc = "each"
    /\ \E ok \in BOOLEAN :
         LET target == Head(cli_targets)
             prefix == IF StartsWith(target.name, KS03_tilde) THEN KS03_tilde
                       ELSE KS03_dash
             mapping == Lookup(DEVICE_UUIDS, prefix)
             payload_ == Control_build_on_off_cmd(cli_args.action = "on")
         IN  /\ cli_log' = Append(cli_log, CliWrite(target.address, mapping, payload_, ok))
             /\ cli_targets' = Tail(cli_targets)
             /\ IF ~ok THEN Cli_raise
                ELSE IF cli_targets' = <<>> THEN Cli_return
                ELSE UNCHANGED <<cli_pc, cli_exit>>
    /\ UNCHANGED <<delivery, enc_call, enc_out, reg_call, reg_out, scan_call, scan_out, ses,
                   cli_args, cli_address>>

\* l.173-181: one turn of the loop over targets; a write_command that raises
\* is caught and printed; after the last target main returns
Cli_write_each ==
    /\ cli_pc = "each"
    /\ \E ok \in BOOLEAN :
         LET target == Head(cli_targets)
             prefix == IF StartsWith(target.name, KS03_tilde) THEN KS03_tilde
                       ELSE KS03_dash
             mapping == Lookup(DEVICE_UUIDS, prefix)
             payload_ == Control_build_on_off_cmd(cli_args.action = "on")
         IN  /\ cli_log' = Append(cli_log, CliWrite(target.address, mapping, payload_, ok))
             /\ cli_targets' = Tail(cli_targets)
             /\ IF cli_targets' = <<>> THEN Cli_return
                ELSE UNCHANGED <<cli_pc, cli_exit>>
    /\ UNCHANGED <<delivery, enc_call, enc_out, reg_call, reg_out, scan_call, scan_out, ses,
                   cli_args, cli_address>>

\* l.184-189: address = args.address; if not address: the scan
Cli_single ==
    /\ cli_pc = "single"
    /\ IF cli_args.address = ""
       THEN LET hit == find_device_by_prefix(cli_args.model_prefix, cli_args.found)
            IN  /\ cli_log' = Append(cli_log, CliScan(cli_args.timeout))
                /\ IF hit = <<>>
                   THEN Cli_raise /\ UNCHANGED cli_address
                   ELSE /\ cli_address' = hit[1]
                        /\ cli_pc' = "write"
                        /\ UNCHANGED cli_exit
       ELSE /\ cli_address' = cli_args.address
            /\ cli_pc' = "write"
            /\ UNCHANGED <<cli_log, cli_exit>>
    /\ UNCHANGED <<delivery, enc_call, enc_out, reg_call, reg_out, scan_call, scan_out, ses,
                   cli_args, cli_targets>>

\* l.191-192: await write_command(address, ...); an exception is not caught
Cli_single_write ==
    /\ cli_pc = "write"
    /\ \E ok \in BOOLEAN :
         LET mapping == Lookup(DEVICE_UUIDS, cli_args.model_prefix)
             payload_ == Control_build_on_off_cmd(cli_args.action = "on")
         IN  /\ cli_log' = Append(cli_log, CliWrite(cli_address, mapping, payload_, ok))
             /\ IF ok THEN Cli_return ELSE Cli_raise
    /\ UNCHANGED <<delivery, enc_call, enc_out, reg_call, reg_out, scan_call, scan_out, ses,
                   cli_args, cli_targets, cli_address>>

NextCli ==
    \/ Cli_parse
    \/ Cli_find_all
    \/ Cli_write_each
    \/ Cli_single
    \/ Cli_single_write

SpecCli == InitCli /\ [][NextCli]_vars

\* The write_command calls main made.
CliWrites == SelectSeq(cli_log, LAMBDA e : e.op = "write")

\* C18: the run ends with status zero only if it wrote to at least one target
\* and every write_command call succeeded; when no target resolved or a write
\* failed it ends with a non-zero status, with --all-ks03 and without.
C18_ExitStatus ==
    cli_exit.exited
    => (cli_exit.status = 0
          <=> (CliWrites # <<>> /\ \A i \in 1..Len(CliWrites) : CliWrites[i].ok))

\* The addresses of the devices a scan returns.
Discovered == {cli_args.found[i].address : i \in 1..Len(cli_args.found)}

\* C19: with a device named "KS03-112233" around, action on, prefix KS03- and
\* no --address, the run scans and writes the on-bytes to that device's
\* address under FFF0/FFF3; and no run writes to an address that was neither
\* typed by the user nor returned by a scan it made.
C19_ScanThenWriteToDiscovered ==
    /\ \A i \in 1..Len(CliWrites) :
         \/ cli_args.address_given /\ CliWrites[i].address = cli_args.address
         \/ /\ \E j \in 1..Len(cli_log) : cli_log[j].op = "scan"
            /\ CliWrites[i].address \in Discovered
    /\ ( /\ cli_exit.exited
         /\ cli_args.action = "on" /\ cli_args.model_prefix = KS03_dash
         /\ ~cli_args.address_given /\ ~cli_args.all_ks03
         /\ \E i \in 1..Len(cli_args.found) :
              cli_args.found[i].has_name
              /\ cli_args.found[i].name = KS03_dash \o <<"112233">> )
       => /\ cli_log # <<>> /\ cli_log[1].op = "scan"
          /\ Len(CliWrites) = 1
          /\ \E i \in 1..Len(cli_args.found) :
               /\ cli_args.found[i].name = KS03_dash \o <<"112233">>
               /\ CliWrites[1].address = cli_args.found[i].address
          /\ CliWrites[1].service = FFF0 /\ CliWrites[1].write = FFF3
          /\ CliWrites[1].data = <<91, 240, 1, 181>>

\* C22: when a run with --all-ks03 has ended, every device found with a name
\* starting "KS03-" or "KS03~" was the target of exactly one write_command
\* call, made with AFD0/AFD1 for a "KS03~" name and FFF0/FFF3 otherwise,
\* whether or not the calls before it failed; no other device was written to.
C22_EveryTargetOnce ==
    (cli_exit.exited /\ cli_args.all_ks03
       /\ cli_args.model_prefix \in {m.prefix : m \in DEVICE_UUIDS})
    => /\ \A i \in 1..Len(cli_args.found) :
            LET d == cli_args.found[i]
                calls == {j \in 1..Len(CliWrites) : CliWrites[j].address = d.address}
            IN  IF d.has_name /\ IsKS03(d.name)
                THEN /\ Cardinality(calls) = 1
                     /\ \A j \in calls :
                          IF StartsWith(d.name, KS03_tilde)
                          THEN CliWrites[j].service = AFD0 /\ CliWrites[j].write = AFD1
                          ELSE CliWrites[j].service = FFF0 /\ CliWrites[j].write = FFF3
                ELSE calls = {}
       /\ \A j \in 1..Len(CliWrites) : CliWrites[j].address \in Discovered

\* C22's case: the write to the first of two targets failed, and the second,
\* a "KS03~" lamp, was written to all the same.
C22_Witness ==
    /\ cli_exit.exited /\ cli_args.all_ks03
    /\ Len(CliWrites) = 2
    /\ ~CliWrites[1].ok
    /\ CliWrites[2].ok /\ CliWrites[2].write = AFD1

(***************************************************************************)
(* led_menu.main: the interactive session.  A send_command call is one     *)
(* step here; what can happen inside it is what the delivery actions above *)
(* show, and its "except Exception" turns each of those into a report.     *)
(***************************************************************************)
\* Most send_command calls of one session in this model.
MaxCommands == 2

\* How the body of send_command's try block can end: it completes, or
\* connect raises, or write_command finds the client not connected, or a
\* write raises, or (is_color only) disconnect raises.
SendOutcomes(is_color) ==
    IF is_color
    THEN {"returned", "connect_raised", "write_failed", "disconnect_raised"}
    ELSE {"returned", "connect_raised", "not_connected", "write_failed"}

\* A send_command call: what is sent, to which address, how the try block
\* ended ("running" until it has), and what was printed.
SendCall(command, is_color, address, outcome, reported) ==
    [command |-> command, is_color |-> is_color, address |-> address,
     outcome |-> outcome, reported |-> reported]

InitSession ==
    /\ DeliveryIdle
    /\ EncoderIdle
    /\ RegistryIdle
    /\ ScanIdle
    /\ CliIdle
    /\ lingering = 0
    /\ ses_pc = "scan"
    /\ ses_devices = <<>>
    /\ ses_device = NoDevice
    /\ ses_log = <<>>

\* l.522-527 (and l.542-547, 'r' in the selection loop):
\* devices = await scan_devices(timeout=8.0); if not devices: return
Session_scan ==
    /\ ses_pc = "scan"
    /\ \E found \in FoundLists :
         /\ ses_devices' = scan_devices(found)
         /\ ses_pc' = IF ses_devices' = <<>> THEN "exited" ELSE "select"
    /\ ses_device' = NoDevice
    /\ UNCHANGED <<delivery, enc_call, enc_out, reg_call, reg_out, scan_call, scan_out, cli,
                   lingering, ses_log>>

\* l.529-558: the selection loop: 'q' returns, 'r' scans again, Enter or a
\* valid number selects; device = devices[selected_idx]
Session_select ==
    /\ ses_pc = "select"
    /\ \/ ses_pc' = "exited" /\ UNCHANGED ses_device
       \/ ses_pc' = "scan" /\ UNCHANGED ses_device
       \/ \E idx \in 1..Len(ses_devices) :
            /\ ses_device' = ses_devices[idx]
            /\ ses_pc' = "menu"
    /\ UNCHANGED <<delivery, enc_call, enc_out, reg_call, reg_out, scan_call, scan_out, cli,
                   lingering, ses_devices, ses_log>>

\* l.564-595: one turn of the main menu loop up to the send_command call, if
\* any: 'q' breaks; '1', '2' send ON, OFF; '3', '4' send a colour; '5' sends
\* a brightness to a floor lamp and prints "not yet supported" otherwise;
\* '6', '7' and the "back" choices send nothing; '8' is return await main().
Session_choose ==
    /\ ses_pc = "menu"
    /\ \E choice \in {"q", "on", "off", "color", "brightness", "other", "change"} :
         LET type == (CHOOSE m \in DEVICE_MAPPINGS : m.prefix = ses_device.prefix).type
             sends == \/ choice \in {"on", "off", "color"}
                      \/ choice = "brightness" /\ type = "floor"
         IN  IF choice = "q"
             THEN ses_pc' = "exited" /\ UNCHANGED <<ses_device, ses_log>>
             ELSE IF choice = "change"
             THEN ses_pc' = "scan" /\ ses_log' = <<>> /\ UNCHANGED ses_device
             ELSE IF sends /\ Len(ses_log) < MaxCommands
             THEN /\ ses_log' = Append(ses_log,
                                  SendCall(choice, choice \in {"color", "brightness"},
                                           ses_device.address, "running", "nothing"))
                  /\ ses_pc' = "sending"
                  /\ UNCHANGED ses_device
             ELSE UNCHANGED <<ses_pc, ses_device, ses_log>>
    /\ UNCHANGED <<delivery, enc_call, enc_out, reg_call, reg_out, scan_call, scan_out, cli,
                   lingering, ses_devices>>

\* A slip: the exception of a failed delivery is not caught, and leaves main.
Session_send_command_uncaught ==
    /\ ses_pc = "sending"
    /\ LET call == ses_log[Len(ses_log)]
       IN  \E outcome \in SendOutcomes(call.is_color) :
             /\ ses_log' = [ses_log EXCEPT ![Len(ses_log)] =
                              SendCall(call.command, call.is_color, call.address, outcome,
                                       IF outcome = "returned" THEN "sent" ELSE "nothing")]
             /\ ses_pc' = IF outcome = "returned" THEN "menu" ELSE "exited"
    /\ UNCHANGED <<delivery, enc_call, enc_out, reg_call, reg_out, scan_call, scan_out, cli,
                   lingering, ses_devices, ses_device>>

\* l.263-290: the try block ends; "sent successfully" is printed when it
\* completed and "Failed: ..." when it raised (except Exception as e); then
\* await asyncio.sleep(1), and send_command returns to the menu loop.
Session_send_command ==
    /\ ses_pc = "sending"
    /\ LET call == ses_log[Len(ses_log)]
       IN  \E outcome \in SendOutcomes(call.is_color) :
             ses_log' = [ses_log EXCEPT ![Len(ses_log)] =
                            SendCall(call.command, call.is_color, call.address, outcome,
                                     IF outcome = "returned" THEN "sent" ELSE "failed")]
    /\ ses_pc' = "menu"
    /\ UNCHANGED <<delivery, enc_call, enc_out, reg_call, reg_out, scan_call, scan_out, cli,
                   lingering, ses_devices, ses_device>>

NextSession ==
    \/ Session_scan
    \/ Session_select
    \/ Session_choose
    \/ Session_send_command

SpecSession == InitSession /\ [][NextSession]_vars

\* C25: whenever a send_command call ends, however its delivery ended, the
\* main menu loop goes on with the same selected device and the same device
\* list, and a delivery that raised was reported as failed.
C25_SessionSurvivesFailure ==
    [][ses_pc = "sending"
         => /\ ses_pc' = "menu"
            /\ ses_device' = ses_device
            /\ ses_devices' = ses_devices
            /\ Len(ses_log') = Len(ses_log)
            /\ LET call == ses_log'[Len(ses_log')]
               IN  /\ call.outcome # "running"
                   /\ call.address = ses_device.address
                   /\ call.reported = IF call.outcome = "returned" THEN "sent"
                                      ELSE "failed"]_vars

\* C25's case: after a connect that raised and then a write that failed, the
\* menu is up with the device both commands were sent to.
C25_Witness ==
    /\ ses_pc = "menu"
    /\ Len(ses_log) = 2
    /\ ses_log[1].outcome = "connect_raised" /\ ses_log[1].reported = "failed"
    /\ ses_log[2].outcome = "write_failed" /\ ses_log[2].reported = "failed"
    /\ ses_device.address = ses_log[2].address

====
